---- MODULE Spec2Model ----
(***************************************************************************)
(* Model of src/main.py: the FastAPI handlers contact() (POST /api/contact)*)
(* and test_database() (GET /test).                                        *)
(*                                                                         *)
(* Python strings are sequences of one-character strings, so that slicing  *)
(* (s[:n]), concatenation (f-strings) and len() are computed as Python     *)
(* computes them.  None and "field absent from the JSON body" are the two  *)
(* one-element sequences None and Missing, which no text equals.           *)
(***************************************************************************)
EXTENDS Integers, Sequences, FiniteSets, TLC

VARIABLES
    env,            \* os.environ: the variables contact() reads
    route,          \* the endpoint of the request being served, "" before it arrives
    pc,             \* position of the request being served
    raw,            \* JSON body of the POST /api/contact request
    payload,        \* the validated ContactPayload, or None
    doc_id,         \* local doc_id of contact()
    email_status,   \* local email_status of contact()
    notion_status,  \* local notion_status of contact()
    store,          \* calls of create_document, in order, with their outcome
    smtp,           \* SMTP operations issued, in order
    posts,          \* HTTP POSTs issued to the external API, with their outcome
    probe,          \* what test_database() found in the database module
    response        \* the HTTP response of the request; status 0 until sent

vars == <<env, route, pc, raw, payload, doc_id, email_status, notion_status,
          store, smtp, posts, probe, response>>

----------------------------------------------------------------------------
(* Values and strings                                                       *)

None == <<"<None>">>
Missing == <<"<missing>">>

Min(a, b) == IF a <= b THEN a ELSE b

\* Python s[:n] for n >= 0
Take(s, n) == SubSeq(s, 1, Min(n, Len(s)))

\* Python truthiness of an Optional[str]: None and "" are falsy
Truthy(v) == v # None /\ v # <<>>

\* Python `a or b`
OrElse(a, b) == IF Truthy(a) THEN a ELSE b

DigitChars == <<"0", "1", "2", "3", "4", "5", "6", "7", "8", "9">>

\* a text of n characters whose i-th character depends on i
Text(n) == [i \in 1..n |-> DigitChars[(i % 10) + 1]]

RECURSIVE IntToStr(_)
\* Python str(n) for an int n >= 0
IntToStr(n) ==
    IF n < 10 THEN <<DigitChars[n + 1]>>
    ELSE IntToStr(n \div 10) \o <<DigitChars[(n % 10) + 1]>>

\* int(s) raises ValueError unless s is a numeral
IsNumeral(s) ==
    /\ s # None
    /\ Len(s) > 0
    /\ \A i \in 1..Len(s) : \E d \in 1..10 : s[i] = DigitChars[d]

\* the characters of a literal, written out
ErrorPrefix == <<"e", "r", "r", "o", "r", ":", " ">>      \* "error: "
Sent == <<"s", "e", "n", "t">>                            \* "sent"
Created == <<"c", "r", "e", "a", "t", "e", "d">>          \* "created"
Website == <<"w", "e", "b", "s", "i", "t", "e">>          \* "website"
Dash == <<"-">>                                           \* '-'
DefaultPort == <<"5", "8", "7">>                          \* "587"

----------------------------------------------------------------------------
(* Program constants                                                        *)

ReasonLen == 80          \* str(e)[:80], resp.text[:80]
MessageLen == 1900       \* payload.message[:1900]
DbErrorLen == 50         \* str(e)[:50] in test_database
CollectionsShown == 10   \* collections[:10]
NetTimeout == 10         \* timeout=10 of smtplib.SMTP and requests.post

----------------------------------------------------------------------------
(* Bounds of the model                                                      *)

MaxTextLen == 82         \* longest exception text / response body
MaxMsgLen == 5000        \* longest message of the long-message specification
MaxCollections == 11     \* most collections the store reports

\* lengths of the exception texts and response bodies the sinks produce
TextLens == {0, ReasonLen, MaxTextLen}
Texts == {Text(n) : n \in TextLens}

----------------------------------------------------------------------------
(* Configuration: os.getenv                                                 *)

SinkVars == {"SMTP_HOST", "SMTP_USER", "SMTP_PASS", "NOTIFY_EMAIL",
             "NOTION_TOKEN", "NOTION_DATABASE_ID"}
DbVars == {"DATABASE_URL", "DATABASE_NAME"}
EnvNames == SinkVars \cup {"SMTP_PORT"} \cup DbVars

\* a variable is unset (None), set to the empty string, or set to a value
EnvValues == {None, <<>>, <<"x">>}
PortValues == {None, DefaultPort, <<"a", "b", "c">>}

\* the environments explored: every setting of the variables contact() reads
\* with the storage variables unset, and every setting of the storage
\* variables with the others unset
Environments ==
    {e \in [EnvNames -> EnvValues \cup PortValues] :
        /\ e["SMTP_PORT"] \in PortValues
        /\ \A v \in SinkVars \cup DbVars : e[v] \in EnvValues
        /\ \/ \A v \in DbVars : e[v] = None
           \/ \A v \in SinkVars \cup {"SMTP_PORT"} : e[v] = None}

\* os.getenv(name)
Getenv(name) == env[name]

\* os.getenv(name, default)
GetenvOr(name, default) == IF env[name] = None THEN default ELSE env[name]

----------------------------------------------------------------------------
(* ContactPayload: the validation FastAPI runs before calling contact()     *)

Count(s, c) == Cardinality({i \in 1..Len(s) : s[i] = c})
IndexOf(s, c) == CHOOSE i \in 1..Len(s) : s[i] = c /\ \A j \in 1..(i - 1) : s[j] # c

\* EmailStr: one "@", a non-empty local part, a domain with a period that
\* neither starts nor ends it
IsEmail(s) ==
    /\ Count(s, "@") = 1
    /\ LET at == IndexOf(s, "@")
           domain == SubSeq(s, at + 1, Len(s))
       IN  /\ at > 1
           /\ Len(domain) >= 3
           /\ Count(domain, ".") >= 1
           /\ domain[1] # "."
           /\ domain[Len(domain)] # "."

\* a required `str` field: present and not null
IsStr(v) == v # Missing /\ v # None

Validates(r) ==
    /\ IsStr(r.name)
    /\ IsStr(r.email) /\ IsEmail(r.email)
    /\ IsStr(r.message)

\* the ContactPayload built from a body that validates
ContactPayload(r) ==
    [name    |-> r.name,
     email   |-> r.email,
     company |-> IF r.company = Missing THEN None ELSE r.company,
     message |-> r.message,
     source  |-> IF r.source = Missing THEN Website ELSE r.source]

----------------------------------------------------------------------------
(* Request bodies                                                           *)

RawNames == {Missing, <<>>, <<"A", "n", "n">>}
RawEmails == {Missing, <<>>, <<"a", ".", "b">>, <<"a", "@", "b", ".", "c">>}
RawCompanies == {Missing, <<"A", "c", "m", "e">>}
RawSources == {Missing, None}
RawMessages == {Missing, <<>>, <<"h", "i">>}
LongMessages == {Text(n) : n \in {MessageLen - 1, MessageLen, MessageLen + 1, MaxMsgLen}}

Bodies(messages) ==
    [name : RawNames, email : RawEmails, company : RawCompanies,
     message : messages, source : RawSources]

----------------------------------------------------------------------------
(* Collaborators                                                            *)

\* database.create_document(collection, data): returns the new id or raises
CreateDocumentOutcomes ==
    {[raised |-> FALSE, id |-> <<"6", "5", "f">>], [raised |-> TRUE, id |-> None]}

\* datetime.now(timezone.utc).isoformat()
Clock == {"2024-01-01T00:00:00+00:00"}

\* the SMTP session: the first call that raises (or "none"), and str(e)
SmtpCalls == <<"connect", "starttls", "login", "sendmail">>
SmtpOutcomes ==
    {[failsAt |-> "none", text |-> <<>>]}
    \cup [failsAt : {SmtpCalls[i] : i \in 1..Len(SmtpCalls)}, text : Texts]

\* requests.post: raises (str(e) = text) or returns a response
StatusCodes == {200, 201, 204, 404}
PostOutcomes ==
    [raised : {TRUE}, status_code : {0}, text : Texts]
    \cup [raised : {FALSE}, status_code : StatusCodes, text : Texts]

----------------------------------------------------------------------------
(* contact(): the pure parts                                                *)

\* if smtp_host and smtp_user and smtp_pass and notify_to
EmailConfigured ==
    /\ Truthy(Getenv("SMTP_HOST"))
    /\ Truthy(Getenv("SMTP_USER"))
    /\ Truthy(Getenv("SMTP_PASS"))
    /\ Truthy(Getenv("NOTIFY_EMAIL"))

\* int(os.getenv("SMTP_PORT", "587")) returns rather than raising ValueError
PortParses == IsNumeral(GetenvOr("SMTP_PORT", DefaultPort))

\* if notion_token and notion_db
NotionConfigured ==
    /\ Truthy(Getenv("NOTION_TOKEN"))
    /\ Truthy(Getenv("NOTION_DATABASE_ID"))

\* the document handed to create_document
ContactDocument(p, now) ==
    [name |-> p.name, email |-> p.email, company |-> p.company,
     message |-> p.message, source |-> p.source, received_at |-> now]

\* how an f-string renders an Optional[str]
Fmt(v) == IF v = None THEN <<"N", "o", "n", "e">> ELSE v

\* the message handed to sendmail
EmailMessage(p) ==
    [From    |-> Getenv("SMTP_USER"),
     To      |-> Getenv("NOTIFY_EMAIL"),
     Subject |-> "New MC Creative Director AI inquiry",
     body    |-> [Name |-> p.name, Email |-> p.email,
                  Company |-> OrElse(p.company, Dash),
                  Message |-> p.message, Source |-> Fmt(p.source)]]

\* the SMTP operations issued when the session ends as outcome o: the calls
\* up to and including the one that raises (raised = TRUE), and the QUIT of
\* the with block once the connection exists
SmtpSession(p, o) ==
    LET raised(i) == SmtpCalls[i] = o.failsAt
        op(i) ==
            IF SmtpCalls[i] = "connect"
            THEN [op |-> "connect", host |-> Getenv("SMTP_HOST"),
                  port |-> GetenvOr("SMTP_PORT", DefaultPort),
                  timeout |-> NetTimeout, raised |-> raised(i)]
            ELSE IF SmtpCalls[i] = "login"
            THEN [op |-> "login", user |-> Getenv("SMTP_USER"),
                  password |-> Getenv("SMTP_PASS"), raised |-> raised(i)]
            ELSE IF SmtpCalls[i] = "sendmail"
            THEN [op |-> "sendmail", msg |-> EmailMessage(p), raised |-> raised(i)]
            ELSE [op |-> "starttls", raised |-> raised(i)]
        last == IF o.failsAt = "none" THEN Len(SmtpCalls)
                ELSE CHOOSE i \in 1..Len(SmtpCalls) : SmtpCalls[i] = o.failsAt
        calls == [i \in 1..last |-> op(i)]
    IN  IF o.failsAt = "connect" THEN calls ELSE Append(calls, [op |-> "quit", raised |-> FALSE])

\* email_status after the try block
EmailStatus(o) ==
    IF o.failsAt = "none" THEN Sent
    ELSE ErrorPrefix \o Take(o.text, ReasonLen)

\* mutant of MessageField: the slice is taken at 2000, payload.message[:2000]
MessageField_2000(message) == Take(message, 2000)

\* payload.message[:1900]
MessageField(message) == Take(message, MessageLen)

\* the JSON of the page-creation POST
NotionData(p) ==
    [parent |-> [database_id |-> Getenv("NOTION_DATABASE_ID")],
     properties |->
        [Name    |-> p.name,
         Email   |-> p.email,
         Company |-> OrElse(p.company, <<>>),
         Source  |-> OrElse(p.source, Website),
         Message |-> MessageField(p.message)]]

NotionRequest(p) ==
    [url     |-> "https://api.notion.com/v1/pages",
     bearer  |-> Getenv("NOTION_TOKEN"),
     json    |-> NotionData(p),
     timeout |-> NetTimeout]

\* mutant of IsCreated: every 2xx status counts as created
IsCreated_Any2xx(code) == code \div 100 = 2

\* resp.status_code in (200, 201)
IsCreated(code) == code \in {200, 201}

\* mutant of NotionStatus: the response body is quoted whole, resp.text
NotionStatus_Uncut(o) ==
    IF o.raised THEN ErrorPrefix \o Take(o.text, ReasonLen)
    ELSE IF o.status_code \in {200, 201} THEN Created
    ELSE ErrorPrefix \o IntToStr(o.status_code) \o <<" ">> \o o.text

\* notion_status after the try block
NotionStatus(o) ==
    IF o.raised THEN ErrorPrefix \o Take(o.text, ReasonLen)
    ELSE IF IsCreated(o.status_code) THEN Created
    ELSE ErrorPrefix \o IntToStr(o.status_code) \o <<" ">> \o Take(o.text, ReasonLen)

\* the dict contact() returns
ContactResult(id, es, ns) ==
    [ok |-> TRUE, id |-> id, email_status |-> es, notion_status |-> ns]

\* what the framework sends back
Http(status, body) == [status |-> status, body |-> body]

----------------------------------------------------------------------------
(* test_database(): the pure parts                                          *)

\* what `from database import db` and db.list_collection_names() do:
\*   imported   FALSE when the import raises ImportError
\*   dbIsNone   TRUE when db is None
\*   name       db.name, Missing when the handle has no attribute `name`
\*   listRaises TRUE when list_collection_names raises, with str(e) = text
\*   count      the number of collection names it returns otherwise
CollectionNames(n) == [i \in 1..n |-> i]
HandleNames == {Missing, <<"a", "p", "p">>}
Probes ==
    [imported : {FALSE}, dbIsNone : {TRUE}, name : {Missing},
     listRaises : {FALSE}, text : {<<>>}, count : {0}]
    \cup [imported : {TRUE}, dbIsNone : {TRUE}, name : {Missing},
          listRaises : {FALSE}, text : {<<>>}, count : {0}]
    \cup [imported : {TRUE}, dbIsNone : {FALSE}, name : HandleNames,
          listRaises : {TRUE}, text : Texts, count : {0}]
    \cup [imported : {TRUE}, dbIsNone : {FALSE}, name : HandleNames,
          listRaises : {FALSE}, text : {<<>>}, count : 0..MaxCollections]

\* response["database"]: a literal and the text interpolated after it
DatabaseField(p) ==
    IF ~p.imported
    THEN [text |-> "Database module not found (run enable-database first)",
          mark |-> "cross", detail |-> <<>>]
    ELSE IF p.dbIsNone
    THEN [text |-> "Available but not initialized", mark |-> "warning", detail |-> <<>>]
    ELSE IF p.listRaises
    THEN [text |-> "Connected but Error: ", mark |-> "warning",
          detail |-> Take(p.text, DbErrorLen)]
    ELSE [text |-> "Connected & Working", mark |-> "check", detail |-> <<>>]

\* mutant of CollectionsField: the list is returned whole, without [:10]
CollectionsField_Whole(p) ==
    IF p.imported /\ ~p.dbIsNone /\ ~p.listRaises
    THEN CollectionNames(p.count)
    ELSE <<>>

\* response["collections"]
CollectionsField(p) ==
    IF p.imported /\ ~p.dbIsNone /\ ~p.listRaises
    THEN Take(CollectionNames(p.count), CollectionsShown)
    ELSE <<>>

\* "Set" if os.getenv(name) else "Not Set"
SetFlag(name) == IF Truthy(Getenv(name)) THEN "Set" ELSE "Not Set"

\* the dict test_database() returns
Report(p) ==
    [backend           |-> "Running",
     database          |-> DatabaseField(p),
     database_url      |-> SetFlag("DATABASE_URL"),
     database_name     |-> SetFlag("DATABASE_NAME"),
     connection_status |-> IF p.imported /\ ~p.dbIsNone
                           THEN "Connected" ELSE "Not Connected",
     collections       |-> CollectionsField(p)]

----------------------------------------------------------------------------
(* The state machine                                                        *)

Init ==
    /\ env \in Environments
    /\ route = ""
    /\ pc = "idle"
    /\ raw = None
    /\ payload = None
    /\ doc_id = None
    /\ email_status = None
    /\ notion_status = None
    /\ store = <<>>
    /\ smtp = <<>>
    /\ posts = <<>>
    /\ probe = None
    /\ response = Http(0, None)

\* POST /api/contact arrives: FastAPI validates the body against
\* ContactPayload and answers 422 itself, or calls contact()
PostContact(messages) ==
    /\ pc = "idle"
    /\ route' = "/api/contact"
    /\ \E r \in Bodies(messages) :
        /\ raw' = r
        /\ IF Validates(r)
           THEN /\ payload' = ContactPayload(r)
                /\ pc' = "storage"
                /\ UNCHANGED response
           ELSE /\ response' = Http(422, None)
                /\ pc' = "done"
                /\ UNCHANGED payload
    /\ UNCHANGED <<env, doc_id, email_status, notion_status, store, smtp, posts, probe>>

\* contact(), the try block around create_document
StorageSink ==
    /\ pc = "storage"
    /\ \E o \in CreateDocumentOutcomes, now \in Clock :
        /\ store' = Append(store, [collection |-> "contact",
                                   data |-> ContactDocument(payload, now),
                                   raised |-> o.raised])
        /\ doc_id' = IF o.raised THEN None ELSE o.id
    /\ pc' = "email"
    /\ UNCHANGED <<env, route, raw, payload, email_status, notion_status, smtp, posts,
                   probe, response>>

\* contact(), from `email_status = None` to the end of the SMTP try block;
\* int() of a SMTP_PORT that is no numeral raises outside every try block and
\* the framework answers 500
EmailSink ==
    /\ pc = "email"
    /\ IF ~PortParses
       THEN /\ response' = Http(500, None)
            /\ pc' = "done"
            /\ UNCHANGED <<email_status, smtp>>
       ELSE /\ IF EmailConfigured
               THEN \E o \in SmtpOutcomes :
                        /\ smtp' = smtp \o SmtpSession(payload, o)
                        /\ email_status' = EmailStatus(o)
               ELSE /\ email_status' = None
                    /\ UNCHANGED smtp
            /\ pc' = "notion"
            /\ UNCHANGED response
    /\ UNCHANGED <<env, route, raw, payload, doc_id, notion_status, store, posts, probe>>

\* contact(), from `notion_status = None` to the end of the Notion try block
NotionSink ==
    /\ pc = "notion"
    /\ IF NotionConfigured
       THEN \E o \in PostOutcomes :
                /\ posts' = Append(posts, [request |-> NotionRequest(payload),
                                           outcome |-> o])
                /\ notion_status' = NotionStatus(o)
       ELSE /\ notion_status' = None
            /\ UNCHANGED posts
    /\ pc' = "respond"
    /\ UNCHANGED <<env, route, raw, payload, doc_id, email_status, store, smtp, probe, response>>

\* contact(), the return statement
Respond ==
    /\ pc = "respond"
    /\ response' = Http(200, ContactResult(doc_id, email_status, notion_status))
    /\ pc' = "done"
    /\ UNCHANGED <<env, route, raw, payload, doc_id, email_status, notion_status,
                   store, smtp, posts, probe>>

\* GET /test: test_database() from call to return
TestDatabase ==
    /\ pc = "idle"
    /\ route' = "/test"
    /\ \E p \in Probes :
        /\ probe' = p
        /\ response' = Http(200, Report(p))
    /\ pc' = "done"
    /\ UNCHANGED <<env, raw, payload, doc_id, email_status, notion_status,
                   store, smtp, posts>>

Next ==
    \/ PostContact(RawMessages)
    \/ StorageSink
    \/ EmailSink
    \/ NotionSink
    \/ Respond
    \/ TestDatabase

Spec == Init /\ [][Next]_vars

\* the contact path alone, with long messages
NextLong ==
    \/ PostContact(LongMessages)
    \/ StorageSink
    \/ EmailSink
    \/ NotionSink
    \/ Respond

\* the environments of the long-message specification: the email sink unset
InitLong ==
    /\ Init
    /\ \A v \in EnvNames \ {"NOTION_TOKEN", "NOTION_DATABASE_ID"} : env[v] = None

SpecLong == InitLong /\ [][NextLong]_vars

----------------------------------------------------------------------------
(* Properties                                                               *)

\* a POST /api/contact has been answered whose body validates and has a
\* name and a message that are not empty
ValidDone ==
    /\ route = "/api/contact" /\ pc = "done" /\ Validates(raw)
    /\ raw.name # <<>> /\ raw.message # <<>>

\* a status string reports a failure: it starts with "error: "
IsFailure(st) ==
    /\ Len(st) >= Len(ErrorPrefix)
    /\ SubSeq(st, 1, Len(ErrorPrefix)) = ErrorPrefix

\* the reason of a failure status: what follows "error: "
Reason(st) == SubSeq(st, Len(ErrorPrefix) + 1, Len(st))

\* sub occurs in s
Contains(s, sub) ==
    \E k \in 0..(Len(s) - Len(sub)) : SubSeq(s, k + 1, k + Len(sub)) = sub

\* C1: every valid submission is answered with ok = true, whatever the
\* configuration and whatever the sinks do
C1_AlwaysOk ==
    ValidDone => (response.status = 200 /\ response.body.ok = TRUE)

\* C2: whether a sink is attempted depends on its own configuration alone
\* (the email sink: its four settings and its port; the external API: its
\* token and database id), and what it reports on its own outcome alone
C2_SinksIndependent ==
    ValidDone =>
        /\ Len(store) = 1
        /\ (smtp # <<>>) <=> (EmailConfigured /\ PortParses)
        /\ (posts # <<>>) <=> NotionConfigured
        /\ (smtp # <<>>) =>
               (email_status = Sent) <=> (\A i \in 1..Len(smtp) : ~smtp[i].raised)
        /\ (posts # <<>>) =>
               (notion_status = Created) <=>
                   (~posts[1].outcome.raised /\ posts[1].outcome.status_code \in {200, 201})

\* a body field that is missing, null or empty
Empty(v) == v = Missing \/ v = None \/ v = <<>>

\* C3: a body whose name, email or message is missing or empty, or whose
\* email is not an email address, is answered 422 and reaches no sink
C3_InvalidRejected ==
    (/\ route = "/api/contact"
     /\ \/ Empty(raw.name)
        \/ Empty(raw.message)
        \/ Empty(raw.email)
        \/ ~IsEmail(raw.email))
    => /\ store = <<>> /\ smtp = <<>> /\ posts = <<>>
       /\ pc = "done" => response.status = 422

RECURSIVE Digits(_)
Digits(n) == IF n < 10 THEN 1 ELSE 1 + Digits(n \div 10)

C5_EmailSkipped ==
    ValidDone =>
        /\ ~EmailConfigured =>
               /\ smtp = <<>>
               /\ response.status = 200
               /\ response.body.email_status = None
        /\ (response.status = 200 /\ response.body.email_status # None)
               => EmailConfigured

\* C6: exactly one POST is issued iff both Notion settings are present;
\* otherwise none is issued and the reported status is null
C6_ApiIffConfigured ==
    ValidDone =>
        /\ (Len(posts) = 1) <=> NotionConfigured
        /\ ~NotionConfigured =>
               /\ posts = <<>>
               /\ response.status = 200
               /\ response.body.notion_status = None

\* C7: every valid submission is answered {ok, id, email_status, api_status},
\* each slot telling Skipped, Succeeded or Failed apart
C7_FixedShape ==
    ValidDone =>
        /\ response.status = 200
        /\ DOMAIN response.body = {"ok", "id", "email_status", "api_status"}
        /\ (response.body.id = None) <=> store[1].raised
        /\ \/ response.body.email_status = None
           \/ response.body.email_status = Sent
           \/ IsFailure(response.body.email_status)

\* C8: an attempted POST is reported as created exactly on status 200 or
\* 201, as a failure naming the status code on any other status, and as a
\* failure when the POST raised
C8_ApiResult ==
    (pc = "done" /\ posts # <<>>) =>
        /\ response.status = 200
        /\ LET o == posts[1].outcome
               ns == response.body.notion_status
           IN  /\ (ns = Created) <=> (~o.raised /\ o.status_code \in {200, 201})
               /\ (~o.raised /\ o.status_code \notin {200, 201}) =>
                      /\ IsFailure(ns)
                      /\ o.status_code = 204 => Contains(Reason(ns), <<"2", "0", "4">>)
                      /\ o.status_code = 404 => Contains(Reason(ns), <<"4", "0", "4">>)
                      /\ Contains(Reason(ns), IntToStr(o.status_code))
               /\ o.raised => IsFailure(ns)

\* C8 witness: the POST returned 204 and the answer reports a failure
C8_Witness ==
    /\ pc = "done" /\ posts # <<>>
    /\ ~posts[1].outcome.raised
    /\ posts[1].outcome.status_code = 204
    /\ IsFailure(response.body.notion_status)

\* C9: the Message field of the POST is the first min(len, 1900) characters
\* of the submitted message: unchanged up to 1900, 1900 of 5000
C9_MessageTruncated ==
    \A i \in 1..Len(posts) :
        LET m == raw.message
            f == posts[i].request.json.properties.Message
        IN  /\ Len(f) = IF Len(m) <= 1900 THEN Len(m) ELSE 1900
            /\ \A k \in 1..Len(f) : f[k] = m[k]
            /\ Len(m) <= 1900 => f = m
            /\ Len(m) = 5000 => Len(f) = 1900

\* C9 witness: a message longer than 1900 characters was posted
C9_Witness ==
    /\ posts # <<>>
    /\ Len(raw.message) > 1900
    /\ Len(posts[1].request.json.properties.Message) = 1900

\* C10: GET /test is always answered with a report: not available or not
\* initialized without a handle, a warning when the enumeration raises, and
\* never more than 10 collections
C10_TestReports ==
    (route = "/test" /\ pc = "done") =>
        /\ response.status = 200
        /\ Len(response.body.collections) <= 10
        /\ (~probe.imported \/ probe.dbIsNone) =>
               /\ response.body.database.mark \in {"cross", "warning"}
               /\ response.body.connection_status = "Not Connected"
               /\ response.body.collections = <<>>
        /\ (probe.imported /\ ~probe.dbIsNone /\ probe.listRaises) =>
               /\ response.body.database.mark = "warning"
               /\ response.body.database.text = "Connected but Error: "
        /\ (probe.imported /\ ~probe.dbIsNone /\ ~probe.listRaises) =>
               /\ response.body.database.mark = "check"
               /\ Len(response.body.collections) =
                      (IF probe.count <= 10 THEN probe.count ELSE 10)

\* C10 witness: the store lists more than 10 collections and 10 are reported
C10_Witness ==
    /\ route = "/test" /\ pc = "done"
    /\ ~probe.dbIsNone /\ ~probe.listRaises
    /\ probe.count > 10
    /\ Len(response.body.collections) = 10

====
